---------------------------- MODULE Spec2Model ----------------------------
(***************************************************************************)
(* Model of the debounced, remount-safe form-state persistence of          *)
(* swapmodal: the process-wide keyed store (useFormStateStore) and the     *)
(* usePersistForm hook (one mounted instance per key).                     *)
(*                                                                         *)
(* Time is counted in milliseconds.  Every timer of the JavaScript timer   *)
(* table carries the time that is left until it is due; Tick lets TickMs   *)
(* milliseconds pass.  A timer whose time is up may fire at any later      *)
(* moment (setTimeout gives a lower bound only).                           *)
(*                                                                         *)
(* A snapshot (the field values of one form) is named by a string; the     *)
(* strings of Snapshots stand for objects such as {name: 'ab'}, which are  *)
(* truthy in JavaScript.                                                   *)
(***************************************************************************)
EXTENDS Integers, Sequences, FiniteSets, TLC

\* formStates: the store's map from key to snapshot.
\* inst:       per key, the refs, the form and the timers of the hook instance.
\* hist:       per key, what an observer of the session has seen (no program
\*             state: the program never reads it).
VARIABLES formStates, inst, hist

vars == <<formStates, inst, hist>>

\* ------------------------------------------------------------------ bounds

\* The keys of the store (the empty string is one a caller may pass), and
\* the keys a component is mounted with.
EmptyKey == ""
Keys == {EmptyKey, "k1", "k2"}
SessionKeys == {"k1"}

\* The snapshots the caller's edits and reset arguments are drawn from.
Snapshots == {"d", "a", "b"}

\* formConfig.defaultValues, the defaults every caller passes for a key.
DefaultValues(key) == "d"

\* Milliseconds that pass in one Tick.
TickMs == 50

\* The debounceMs values a session may be mounted with: 0, one below and one
\* above the reset cooldown.
DebounceChoices == {0, 50, 150}

\* Most cooldown timers of one instance that are outstanding at once.
MaxCooldownTimers == 2

\* The observer counts the changes of a burst and the writes up to here.
MaxCount == 2

\* The delay of the setTimeout that ends a reset.
ResetCooldownMs == 100

\* JavaScript null, and reset() called without arguments.
Null == "null"
NoArgs == "noargs"

\* A state that is falsy in JavaScript (0, '', false): setFormState takes a
\* state of type any.
Falsy == ""

\* The states a direct caller of the store passes to setFormState.
StoreStates == Snapshots \cup {Falsy}

\* ------------------------------------------------------------------- store

Truthy(state) == state \notin {Null, Falsy}

\* A setFormState that gives the state to every entry of the store.
SetFormStateEveryKey(fs, key, state) ==
    [k \in (DOMAIN fs) \cup {key} |-> state]

\* setFormState: formStates = {...store.formStates, [key]: state}
SetFormState(fs, key, state) ==
    [k \in (DOMAIN fs) \cup {key} |-> IF k = key THEN state ELSE fs[k]]

\* getFormState reading the property named "key" instead of the key.
GetFormStateLiteralKey(fs, key) ==
    IF "key" \in DOMAIN fs /\ Truthy(fs["key"]) THEN fs["key"] ELSE Null

\* getFormState: get().formStates[key] || null
GetFormState(fs, key) ==
    IF key \in DOMAIN fs /\ Truthy(fs[key]) THEN fs[key] ELSE Null

\* clearFormState that returns the states it was given.
ClearFormStateKeepsAll(fs, key) == fs

\* A clearFormState that drops every entry, not only the key's.
ClearFormStateDropsAll(fs, key) == [k \in {} |-> Null]

\* clearFormState: const {[key]: _, ...rest} = formStates; formStates = rest
ClearFormState(fs, key) ==
    [k \in (DOMAIN fs) \ {key} |-> fs[k]]

\* A clearAllFormStates that leaves the entries where they are.
ClearAllFormStatesNothing(fs) == fs

\* clearAllFormStates: set({formStates: {}})
ClearAllFormStates(fs) == [k \in {} |-> Null]

\* ---------------------------------------------------------------- instance

\* The refs and the form of a hook instance that is not mounted.
NoInstance ==
    [mounted |-> FALSE,
     debounceMs |-> 0,
     isInitialMount |-> TRUE,
     hasRestored |-> FALSE,
     isResetting |-> FALSE,
     subscribed |-> FALSE,
     values |-> Null,
     formDefaultValues |-> Null,
     debounceTimers |-> <<>>,
     cooldownTimers |-> <<>>]

\* A clearTimeout that clears nothing.
ClearTimeoutRefNothing(timers) == timers

\* clearTimeout(debounceTimerRef.current): the timer the ref designates leaves
\* the timer table; a handle of a timer that already fired clears nothing.
ClearTimeoutRef(timers) == SelectSeq(timers, LAMBDA t : ~t.ref)

\* setTimeout without its delay argument.
SetTimeoutRefNoDelay(timers, values, ms) ==
    Append([i \in 1..Len(timers) |-> [timers[i] EXCEPT !.ref = FALSE]],
           [remaining |-> 0, values |-> values, ref |-> TRUE])

\* debounceTimerRef.current = setTimeout(() => setFormState(key, values), ms):
\* the new timer holds the values it was given, and the ref designates it.
SetTimeoutRef(timers, values, ms) ==
    Append([i \in 1..Len(timers) |-> [timers[i] EXCEPT !.ref = FALSE]],
           [remaining |-> ms, values |-> values, ref |-> TRUE])

\* saveFormState without the isResetting guard.
SaveFormStateNoGuard(s, values) ==
    [s EXCEPT !.debounceTimers =
        SetTimeoutRef(ClearTimeoutRef(s.debounceTimers), values, s.debounceMs)]

\* saveFormState as a leading-edge debounce: a change that finds a timer
\* pending leaves it, with its older values, in place.
SaveFormStateLeading(s, values) ==
    IF s.isResetting \/ s.debounceTimers # << >>
    THEN s
    ELSE [s EXCEPT !.debounceTimers = SetTimeoutRef(s.debounceTimers, values, s.debounceMs)]

\* saveFormState without the clearTimeout of the pending timer: every change
\* leaves its own timer behind.
SaveFormStateNoClear(s, values) ==
    IF s.isResetting
    THEN s
    ELSE [s EXCEPT !.debounceTimers = SetTimeoutRef(s.debounceTimers, values, s.debounceMs)]

\* saveFormState(values)
SaveFormState(s, values) ==
    IF s.isResetting
    THEN s
    ELSE [s EXCEPT !.debounceTimers =
              SetTimeoutRef(ClearTimeoutRef(s.debounceTimers), values, s.debounceMs)]

\* The callback given to form.watch, called by the form on every emission
\* while the subscription lasts.
WatchCallback(s, values) ==
    IF s.subscribed /\ (s.hasRestored \/ ~s.isInitialMount)
    THEN SaveFormState(s, values)
    ELSE s

\* form.reset(values) of react-hook-form: the values become the form's values
\* and its default values, and the change is emitted to the watchers.
\* Without an argument the form returns to its default values.
FormReset(s, arg) ==
    LET v == IF arg = NoArgs THEN s.formDefaultValues ELSE arg
        t == [s EXCEPT !.values = v, !.formDefaultValues = v]
    IN  WatchCallback(t, v)

\* form.setValue(...): the form holds the new values and emits the change.
FormSetValue(s, values) ==
    WatchCallback([s EXCEPT !.values = values], values)

\* The first render without the fallback to the caller's defaultValues.
RenderNoFallback(fs, key, debounceMs) ==
    [NoInstance EXCEPT !.mounted = TRUE,
                       !.debounceMs = debounceMs,
                       !.values = GetFormState(fs, key),
                       !.formDefaultValues = GetFormState(fs, key)]

\* The first render: initialDefaultValues = getFormState(key) || defaultValues
\* are the defaultValues of useForm; all refs are fresh.
Render(fs, key, debounceMs) ==
    LET saved == GetFormState(fs, key)
        initialDefaultValues == IF Truthy(saved) THEN saved ELSE DefaultValues(key)
    IN  [NoInstance EXCEPT !.mounted = TRUE,
                           !.debounceMs = debounceMs,
                           !.values = initialDefaultValues,
                           !.formDefaultValues = initialDefaultValues]

\* The first effect: restore the saved snapshot, then leave the initial mount.
RestoreEffect(fs, key, s) ==
    IF s.isInitialMount /\ ~s.hasRestored
    THEN LET saved == GetFormState(fs, key)
             r == IF Truthy(saved)
                  THEN [FormReset(s, saved) EXCEPT !.hasRestored = TRUE]
                  ELSE s
         IN  [r EXCEPT !.isInitialMount = FALSE]
    ELSE s

\* The second effect: subscribe to the form's changes unless still in the
\* initial mount.
WatchEffect(s) ==
    IF s.isInitialMount THEN s ELSE [s EXCEPT !.subscribed = TRUE]

\* The session's reset(...args), the synchronous part and the cooldown timer
\* it starts.
ResetInstance(s, arg) ==
    LET s1 == [s EXCEPT !.isResetting = TRUE]
        s2 == [s1 EXCEPT !.debounceTimers = ClearTimeoutRef(s1.debounceTimers)]
        s3 == FormReset(s2, arg)
        s4 == [s3 EXCEPT !.hasRestored = FALSE]
    IN  [s4 EXCEPT !.cooldownTimers = Append(@, ResetCooldownMs)]

\* The cleanup without its clearTimeout: it only unsubscribes.
WatchCleanupNoClear(s) ==
    [NoInstance EXCEPT !.debounceTimers =
        [i \in 1..Len(s.debounceTimers) |-> [s.debounceTimers[i] EXCEPT !.ref = FALSE]]]

\* The cleanup of the second effect, run when the component unmounts.  The
\* refs and the form of the instance are dropped with it; what stays in the
\* timer table are the debounce timers the cleanup did not clear.  (The
\* cooldown timers of a dead instance only assign its own dead ref.)
WatchCleanup(s) ==
    [NoInstance EXCEPT !.debounceTimers =
        LET left == ClearTimeoutRef(s.debounceTimers)
        IN  [i \in 1..Len(left) |-> [left[i] EXCEPT !.ref = FALSE]]]

\* A sequence without its element i.
RemoveAt(seq, i) ==
    [j \in 1..(Len(seq) - 1) |-> IF j < i THEN seq[j] ELSE seq[j + 1]]

\* What is left of a delay after TickMs milliseconds.
After(remaining) == IF remaining > TickMs THEN remaining - TickMs ELSE 0

\* ---------------------------------------------------------------- observer

\* The store's entry for a key, Null when the key has none.
Entry(fs, key) == IF key \in DOMAIN fs THEN fs[key] ELSE Null

\* The longest debounce delay; elapsed time is counted up to it.
MaxDebounceMs == CHOOSE d \in DebounceChoices : \A e \in DebounceChoices : e <= d

Min(a, b) == IF a < b THEN a ELSE b

\* lastOp:      the caller's last operation on the mounted session.
\* changes:     the changes made while not resetting since the last write,
\*              reset or mount (the current burst), counted up to MaxCount.
\* writes:      the store writes of the session since the last change, reset
\*              or mount, counted up to MaxCount.
\* epoch:       flips with every change.
\* sinceChange: milliseconds since the last change, up to MaxDebounceMs.
\* cancelled:   the last reset or unmount found a debounce timer pending.
\* arg:         the state given to the last direct setFormState of the key.
\* got:         what the last read of the key's entry returned, NoResult when
\*              the caller's last operation on the key was not a read.
\* afterReset:  the session was reset since it was mounted.
\* sinceReset:  milliseconds since the session's last reset, up to
\*              ResetCooldownMs (and ResetCooldownMs when there was none).
NoResult == "noresult"

NoHistory ==
    [lastOp |-> "none", changes |-> 0, writes |-> 0, epoch |-> FALSE,
     sinceChange |-> 0, cancelled |-> FALSE, arg |-> NoArgs, got |-> NoResult,
     afterReset |-> FALSE, sinceReset |-> ResetCooldownMs]

\* What a call of the store by another caller leaves of a key's history:
\* what is recorded of the session's resets.
StoreHistory(h) ==
    [NoHistory EXCEPT !.afterReset = h.afterReset, !.sinceReset = h.sinceReset]

\* ----------------------------------------------------------------- actions

TypeOK ==
    /\ DOMAIN formStates \subseteq Keys
    /\ \A k \in DOMAIN formStates : formStates[k] \in StoreStates
    /\ DOMAIN inst = Keys
    /\ \A k \in Keys :
         /\ inst[k].mounted \in BOOLEAN
         /\ inst[k].isResetting \in BOOLEAN
         /\ inst[k].values \in Snapshots \cup {Null}
         /\ Len(inst[k].cooldownTimers) <= MaxCooldownTimers
         /\ hist[k].lastOp \in {"none", "mount", "change", "reset",
                              "set", "clear", "clearAll", "clearPersist"}
         /\ hist[k].changes \in 0..MaxCount
         /\ hist[k].writes \in 0..MaxCount
         /\ hist[k].sinceChange \in 0..MaxDebounceMs
         /\ hist[k].afterReset \in BOOLEAN
         /\ hist[k].sinceReset \in 0..ResetCooldownMs

Init ==
    /\ formStates = [k \in {} |-> Null]
    /\ inst = [k \in Keys |-> NoInstance]
    /\ hist = [k \in Keys |-> NoHistory]

\* A mount that subscribes to the form, and leaves the initial mount, before
\* the saved snapshot is applied.
MountSubscribedFirst(key, debounceMs) ==
    /\ ~inst[key].mounted
    /\ inst' = [inst EXCEPT ![key] =
                   LET s == [Render(formStates, key, debounceMs)
                                EXCEPT !.isInitialMount = FALSE, !.subscribed = TRUE]
                       saved == GetFormState(formStates, key)
                       r == IF Truthy(saved)
                            THEN [FormReset(s, saved) EXCEPT !.hasRestored = TRUE]
                            ELSE s
                   IN  [r EXCEPT !.debounceTimers = inst[key].debounceTimers \o @]]
    /\ hist' = [hist EXCEPT ![key] = [NoHistory EXCEPT !.lastOp = "mount"]]
    /\ UNCHANGED formStates

\* A component that calls usePersistForm({key, debounceMs, defaultValues}) is
\* mounted: the render, then the two effects in the order they are declared.
\* Timers that a former instance left in the timer table stay there.
Mount(key, debounceMs) ==
    /\ ~inst[key].mounted
    /\ inst' = [inst EXCEPT ![key] =
                   [WatchEffect(RestoreEffect(formStates, key,
                                              Render(formStates, key, debounceMs)))
                       EXCEPT !.debounceTimers = inst[key].debounceTimers \o @]]
    /\ hist' = [hist EXCEPT ![key] = [NoHistory EXCEPT !.lastOp = "mount"]]
    /\ UNCHANGED formStates

\* The caller (or the user typing) changes the form's values.
Change(key, values) ==
    /\ inst[key].mounted
    /\ inst' = [inst EXCEPT ![key] = FormSetValue(inst[key], values)]
    /\ hist' = [hist EXCEPT ![key] =
                   [lastOp |-> "change",
                    changes |-> IF inst[key].isResetting THEN 0
                                ELSE IF @.writes > 0 THEN 1
                                ELSE Min(@.changes + 1, MaxCount),
                    writes |-> 0,
                    epoch |-> ~@.epoch,
                    sinceChange |-> 0,
                    cancelled |-> FALSE,
                    arg |-> NoArgs,
                    got |-> NoResult,
                    afterReset |-> @.afterReset,
                    sinceReset |-> @.sinceReset]]
    /\ UNCHANGED formStates

\* The caller calls the session's reset, with new values or without.
Reset(key, arg) ==
    /\ inst[key].mounted
    /\ Len(inst[key].cooldownTimers) < MaxCooldownTimers
    /\ inst' = [inst EXCEPT ![key] = ResetInstance(inst[key], arg)]
    /\ formStates' = ClearFormState(formStates, key)
    /\ hist' = [hist EXCEPT ![key] =
                   [NoHistory EXCEPT !.lastOp = "reset",
                                     !.cancelled = (inst[key].debounceTimers # << >>),
                                     !.afterReset = TRUE,
                                     !.sinceReset = 0]]

\* The debounce timer i of the key fires: setFormState(key, values) with the
\* values of its closure.
FireDebounceTimer(key, i) ==
    /\ i \in 1..Len(inst[key].debounceTimers)
    /\ inst[key].debounceTimers[i].remaining = 0
    /\ formStates' = SetFormState(formStates, key, inst[key].debounceTimers[i].values)
    /\ inst' = [inst EXCEPT ![key].debounceTimers = RemoveAt(@, i)]
    /\ hist' = [hist EXCEPT ![key].writes = Min(@ + 1, MaxCount)]

\* A cooldown timer whose callback leaves isResetting as it is.
FireCooldownTimerKeepsFlag(key, i) ==
    /\ i \in 1..Len(inst[key].cooldownTimers)
    /\ inst[key].cooldownTimers[i] = 0
    /\ inst' = [inst EXCEPT ![key].cooldownTimers = RemoveAt(@, i)]
    /\ UNCHANGED <<formStates, hist>>

\* The cooldown timer i of the instance fires: isResetting.current = false.
FireCooldownTimer(key, i) ==
    /\ i \in 1..Len(inst[key].cooldownTimers)
    /\ inst[key].cooldownTimers[i] = 0
    /\ inst' = [inst EXCEPT ![key].isResetting = FALSE,
                            ![key].cooldownTimers = RemoveAt(@, i)]
    /\ UNCHANGED <<formStates, hist>>

\* The component unmounts.
Unmount(key) ==
    /\ inst[key].mounted
    /\ inst' = [inst EXCEPT ![key] = WatchCleanup(inst[key])]
    /\ hist' = [hist EXCEPT ![key] =
                   [NoHistory EXCEPT !.cancelled = (inst[key].debounceTimers # << >>)]]
    /\ UNCHANGED formStates

\* TickMs milliseconds pass for every timer of the timer table.
Tick ==
    /\ inst' = [k \in Keys |->
                  [inst[k] EXCEPT
                     !.debounceTimers =
                        [i \in 1..Len(@) |-> [@[i] EXCEPT !.remaining = After(@)]],
                     !.cooldownTimers = [i \in 1..Len(@) |-> After(@[i])]]]
    /\ hist' = [k \in Keys |->
                  [hist[k] EXCEPT
                     !.sinceChange = IF hist[k].lastOp = "change"
                                     THEN Min(@ + TickMs, MaxDebounceMs) ELSE @,
                     !.sinceReset = Min(@ + TickMs, ResetCooldownMs)]]
    /\ <<inst', hist'>> # <<inst, hist>>
    /\ UNCHANGED formStates

FireDebounce(key) == \E i \in 1..Len(inst[key].debounceTimers) : FireDebounceTimer(key, i)

FireCooldown(key) == \E i \in 1..Len(inst[key].cooldownTimers) : FireCooldownTimer(key, i)

Next ==
    \/ \E key \in SessionKeys, debounceMs \in DebounceChoices : Mount(key, debounceMs)
    \/ \E key \in SessionKeys, values \in Snapshots : Change(key, values)
    \/ \E key \in SessionKeys, arg \in Snapshots \cup {NoArgs} : Reset(key, arg)
    \/ \E key \in Keys : FireDebounce(key)
    \/ \E key \in Keys : FireCooldown(key)
    \/ \E key \in SessionKeys : Unmount(key)
    \/ Tick

Spec == Init /\ [][Next]_vars

\* The event loop lets time pass and runs every timer that is due.
FairSpec ==
    /\ Spec
    /\ WF_vars(Tick)
    /\ \A key \in Keys : WF_vars(FireDebounce(key)) /\ WF_vars(FireCooldown(key))

\* ------------------------------------------------------- the store's callers

\* A caller of the store calls setFormState(key, state).
StoreSet(key, state) ==
    /\ formStates' = SetFormState(formStates, key, state)
    /\ hist' = [hist EXCEPT ![key] =
                   [StoreHistory(@) EXCEPT !.lastOp = "set", !.arg = state]]
    /\ UNCHANGED inst

\* A caller of the store calls getFormState(key) and keeps what it returns.
StoreGet(key) ==
    /\ hist' = [hist EXCEPT ![key].got = GetFormState(formStates, key)]
    /\ UNCHANGED <<formStates, inst>>

\* A caller of the store calls clearFormState(key).
StoreClear(key) ==
    /\ formStates' = ClearFormState(formStates, key)
    /\ hist' = [hist EXCEPT ![key] = [StoreHistory(@) EXCEPT !.lastOp = "clear"]]
    /\ UNCHANGED inst

\* A caller of the store calls clearAllFormStates().
StoreClearAll ==
    /\ formStates' = ClearAllFormStates(formStates)
    /\ hist' = [k \in Keys |-> [StoreHistory(hist[k]) EXCEPT !.lastOp = "clearAll"]]
    /\ UNCHANGED inst

StoreNext ==
    \/ \E key \in Keys, state \in StoreStates : StoreSet(key, state)
    \/ \E key \in Keys : StoreGet(key)
    \/ \E key \in Keys : StoreClear(key)
    \/ StoreClearAll

\* The store alone, called directly: no component is mounted.
StoreSpec == Init /\ [][StoreNext]_vars

\* ------------------------------------------------- the session's accessors

\* clearPersist(): the entry of the session's key is removed from the store;
\* the form, its timers and its flags are left as they are.
ClearPersist(key) ==
    /\ inst[key].mounted
    /\ formStates' = ClearFormState(formStates, key)
    /\ hist' = [hist EXCEPT ![key].lastOp = "clearPersist", ![key].got = NoResult]
    /\ UNCHANGED inst

\* getPersistValues(): the store's getFormState of the session's key.
GetPersistValues(key) ==
    /\ inst[key].mounted
    /\ hist' = [hist EXCEPT ![key].got = GetFormState(formStates, key)]
    /\ UNCHANGED <<formStates, inst>>

AccessNext ==
    \/ \E key \in SessionKeys, debounceMs \in DebounceChoices : Mount(key, debounceMs)
    \/ \E key \in SessionKeys, values \in Snapshots : Change(key, values)
    \/ \E key \in SessionKeys, arg \in Snapshots \cup {NoArgs} : Reset(key, arg)
    \/ \E key \in Keys : FireDebounce(key)
    \/ \E key \in Keys : FireCooldown(key)
    \/ \E key \in SessionKeys : Unmount(key)
    \/ Tick
    \/ \E key \in SessionKeys : ClearPersist(key)
    \/ \E key \in SessionKeys : GetPersistValues(key)

\* The session with its accessors of the persisted state.
AccessSpec == Init /\ [][AccessNext]_vars

\* ------------------------------------------------------------ the empty key

\* The keys a caller passes who gives the hook no usable key.
UsageKeys == {EmptyKey}

UsageNext ==
    \/ \E key \in UsageKeys, debounceMs \in DebounceChoices : Mount(key, debounceMs)
    \/ \E key \in UsageKeys, values \in Snapshots : Change(key, values)
    \/ \E key \in UsageKeys, arg \in Snapshots \cup {NoArgs} : Reset(key, arg)
    \/ \E key \in Keys : FireDebounce(key)
    \/ \E key \in Keys : FireCooldown(key)
    \/ \E key \in UsageKeys : Unmount(key)
    \/ Tick

\* usePersistForm called with key: ''.
UsageSpec == Init /\ [][UsageNext]_vars

\* ------------------------------------------------------------- two sessions

\* Two components mounted with different keys on the one store, and a caller
\* of the store who sets and clears entries of these keys. Each session
\* takes one debounce delay and changes to a snapshot of its own, which is
\* also what the store's caller sets for its key, and a session is reset
\* without arguments when no earlier reset is cooling down.
TwoKeys == {"k1", "k2"}
TwoDebounceMs == TickMs
TwoValues(key) == IF key = "k1" THEN "a" ELSE "b"

ResetOnce(key) == inst[key].cooldownTimers = << >> /\ Reset(key, NoArgs)

TwoNext ==
    \/ \E key \in TwoKeys : Mount(key, TwoDebounceMs)
    \/ \E key \in TwoKeys : Change(key, TwoValues(key))
    \/ \E key \in TwoKeys : ResetOnce(key)
    \/ \E key \in Keys : FireDebounce(key)
    \/ \E key \in Keys : FireCooldown(key)
    \/ \E key \in TwoKeys : Unmount(key)
    \/ Tick
    \/ \E key \in TwoKeys : StoreSet(key, TwoValues(key))
    \/ \E key \in TwoKeys : StoreClear(key)

TwoSpec == Init /\ [][TwoNext]_vars

\* ------------------------------------------- a session and the store's clears

\* A mounted session whose key's entry a caller of the store clears, with
\* clearFormState(key) or with clearAllFormStates().
ClearNext ==
    \/ \E key \in SessionKeys, debounceMs \in DebounceChoices : Mount(key, debounceMs)
    \/ \E key \in SessionKeys, values \in Snapshots : Change(key, values)
    \/ \E key \in SessionKeys, arg \in Snapshots \cup {NoArgs} : Reset(key, arg)
    \/ \E key \in Keys : FireDebounce(key)
    \/ \E key \in Keys : FireCooldown(key)
    \/ \E key \in SessionKeys : Unmount(key)
    \/ Tick
    \/ \E key \in SessionKeys : StoreClear(key)
    \/ StoreClearAll

ClearSpec == Init /\ [][ClearNext]_vars

\* ------------------------------------------------------------------ claims

\* The debounce timers of a key that have not fired and were not cleared.
Pending(key) == inst[key].debounceTimers

\* This step is the caller's change, reset or unmount, or the mount, for the key.
ChangeStep(k) == hist'[k].lastOp = "change" /\ hist'[k].epoch # hist[k].epoch
ResetStep(k) == \E arg \in Snapshots \cup {NoArgs} : Reset(k, arg)
UnmountStep(k) == inst[k].mounted /\ ~inst'[k].mounted
MountStep(k) == ~inst[k].mounted /\ inst'[k].mounted

\* C1 (debounce collapse): a burst of changes made while the session is not
\* resetting has, while its write is outstanding, exactly one pending timer,
\* which holds the values of the last change; the burst is written at most
\* once, and once written the store's entry is the last change's values
\* (the form's values) and no timer is left to write again; and the write
\* does happen unless a further change, a reset or the unmount comes first.
C1_BurstState ==
    \A k \in Keys :
        inst[k].mounted /\ hist[k].changes >= 1 =>
            /\ hist[k].writes <= 1
            /\ hist[k].writes = 0 =>
                   /\ Len(Pending(k)) = 1
                   /\ Pending(k)[1].values = inst[k].values
            /\ hist[k].writes = 1 =>
                   /\ Pending(k) = << >>
                   /\ Entry(formStates, k) = inst[k].values

C1_Outstanding(k, e) ==
    inst[k].mounted /\ hist[k].changes >= 1 /\ hist[k].writes = 0 /\ hist[k].epoch = e

C1_Settled(k, e) ==
    \/ hist[k].writes = 1 /\ Entry(formStates, k) = inst[k].values
    \/ hist[k].epoch # e
    \/ hist[k].lastOp # "change"

C1_DebounceCollapse ==
    /\ []C1_BurstState
    /\ \A k \in Keys : \A e \in BOOLEAN : C1_Outstanding(k, e) ~> C1_Settled(k, e)

\* A burst of two or more changes, written once, with the last values.
C1_Witness ==
    \E k \in Keys :
        /\ inst[k].mounted /\ inst[k].debounceMs = MaxDebounceMs
        /\ hist[k].changes >= 2 /\ hist[k].writes = 1
        /\ inst[k].values = "b" /\ Entry(formStates, k) = "b"

\* C2 (restore on remount): the unmount leaves the store's entry as it is,
\* the entry stays as it is while no session is mounted for the key, and a
\* session mounted for a key that has an entry starts with the entry as its
\* form's values (not with the defaults), the store untouched.
C2_RestoreOnRemount ==
    [][\A k \in Keys :
          /\ UnmountStep(k) => Entry(formStates', k) = Entry(formStates, k)
          /\ ~inst[k].mounted /\ ~inst'[k].mounted =>
                 Entry(formStates', k) = Entry(formStates, k)
          /\ MountStep(k) /\ k \in DOMAIN formStates =>
                 /\ inst'[k].values = formStates[k]
                 /\ formStates' = formStates]_vars

\* A session just mounted on the snapshot "a", which are not the defaults.
C2_Witness ==
    \E k \in Keys :
        /\ inst[k].mounted /\ hist[k].lastOp = "mount" /\ inst[k].hasRestored
        /\ Entry(formStates, k) = "a" /\ inst[k].values = "a"
        /\ DefaultValues(k) # "a"

\* C3 (reset post-state): when reset(newValues) returns, whatever the state
\* it was called in, the store has no entry for the key and the form's values
\* are newValues.
C3_ResetPostState ==
    [][\A k \in Keys : \A v \in Snapshots :
          Reset(k, v) => k \notin DOMAIN formStates' /\ inst'[k].values = v]_vars

\* Right after reset("a"): the reset is in its cooldown, nothing has fired.
C3_Witness ==
    \E k \in Keys :
        /\ inst[k].mounted /\ hist[k].lastOp = "reset" /\ hist[k].cancelled
        /\ inst[k].cooldownTimers = <<ResetCooldownMs>>
        /\ inst[k].values = "a" /\ k \notin DOMAIN formStates

\* C4 (reset suppresses re-persistence): as long as the caller has done
\* nothing since a reset, the key has no entry in the store and no debounce
\* timer is pending that could write one, whatever debounceMs is and whether
\* the cooldown is over or not.
C4_ResetSuppresses ==
    \A k \in Keys :
        inst[k].mounted /\ hist[k].lastOp = "reset" =>
            k \notin DOMAIN formStates /\ Pending(k) = << >>

\* A session with debounceMs = 0 whose reset and cooldown are over.
C4_Witness ==
    \E k \in Keys :
        /\ inst[k].mounted /\ hist[k].lastOp = "reset" /\ inst[k].debounceMs = 0
        /\ ~inst[k].isResetting /\ inst[k].cooldownTimers = << >>
        /\ k \notin DOMAIN formStates

\* C5 (no early write): a change itself leaves the store as it is, and while
\* less than debounceMs has passed since the session's last change no step
\* other than a reset changes the store's entry for the key.
C5_NoEarlyWrite ==
    [][\A k \in Keys :
          /\ ChangeStep(k) => formStates' = formStates
          /\ ( /\ inst[k].mounted /\ hist[k].lastOp = "change"
               /\ hist[k].sinceChange < inst[k].debounceMs
               /\ ~ResetStep(k) )
             => ~FireDebounce(k) /\ Entry(formStates', k) = Entry(formStates, k)]_vars

\* Inside the debounce window: the form holds "b", the store still "a".
C5_Witness ==
    \E k \in Keys :
        /\ inst[k].mounted /\ hist[k].lastOp = "change"
        /\ hist[k].sinceChange > 0 /\ hist[k].sinceChange < inst[k].debounceMs
        /\ inst[k].values = "b" /\ Entry(formStates, k) = "a"

\* C6 (reset without arguments): after reset() the form's values are the
\* defaultValues the caller mounted the session with.
C6_ResetToCallerDefaults ==
    [][\A k \in Keys : Reset(k, NoArgs) => inst'[k].values = DefaultValues(k)]_vars

\* C7 (reset cancels the pending write): a reset called while a debounce
\* timer is pending leaves no debounce timer pending, so the timer cannot
\* fire afterwards, and the entry is gone.
C7_ResetCancels ==
    [][\A k \in Keys :
          ResetStep(k) /\ Pending(k) # << >> =>
              Pending(k)' = << >> /\ k \notin DOMAIN formStates']_vars

\* After a reset that found a timer pending: none pending, nothing stored.
C7_Witness ==
    \E k \in Keys :
        /\ inst[k].mounted /\ hist[k].lastOp = "reset" /\ hist[k].cancelled
        /\ Pending(k) = << >> /\ k \notin DOMAIN formStates
        /\ ~inst[k].isResetting

\* C8 (no write on or after unmount): the unmount leaves no debounce timer
\* pending and no subscription, and writes nothing; and while no session is
\* mounted for the key nothing changes the key's entry.
C8_NoWriteAfterUnmount ==
    [][\A k \in Keys :
          /\ UnmountStep(k) =>
                 /\ Pending(k)' = << >>
                 /\ ~inst'[k].subscribed
                 /\ formStates' = formStates
          /\ ~inst[k].mounted =>
                 /\ Pending(k) = << >>
                 /\ ~inst'[k].mounted => Entry(formStates', k) = Entry(formStates, k)]_vars

\* Unmounted with a change that was never written: the timer is gone.
C8_Witness ==
    \E k \in Keys :
        /\ ~inst[k].mounted /\ hist[k].cancelled
        /\ Pending(k) = << >> /\ k \notin DOMAIN formStates

\* C9 (no save-before-restore): as long as the caller has done nothing since
\* the mount, no debounce timer is pending and the store's entry is what the
\* mount found: the snapshot that was restored, or none.
C9_NoSaveBeforeRestore ==
    \A k \in Keys :
        inst[k].mounted /\ hist[k].lastOp = "mount" =>
            /\ Pending(k) = << >>
            /\ Entry(formStates, k) = IF inst[k].hasRestored THEN inst[k].values ELSE Null

\* A session with debounceMs = 0 mounted on the snapshot "b".
C9_Witness ==
    \E k \in Keys :
        /\ inst[k].mounted /\ hist[k].lastOp = "mount" /\ inst[k].debounceMs = 0
        /\ inst[k].hasRestored /\ inst[k].values = "b" /\ Entry(formStates, k) = "b"

\* C10 (fire-time values): whenever a debounce timer fires, its session is
\* mounted and the snapshot it writes is the form's values at that moment.
C10_FireTimeValues ==
    [][\A k \in Keys :
          FireDebounce(k) =>
              inst[k].mounted /\ Entry(formStates', k) = inst[k].values]_vars

\* A write over an older snapshot: the timer has fired with the form's "a".
C10_Witness ==
    \E k \in Keys :
        /\ inst[k].mounted /\ hist[k].writes = 1 /\ hist[k].changes = 1
        /\ inst[k].hasRestored /\ inst[k].formDefaultValues = "b"
        /\ inst[k].values = "a" /\ Entry(formStates, k) = "a"

\* C12 (initial values at mount): a session that is mounted starts with the
\* store's entry for its key as the form's values and default values when
\* the key has an entry, and with the caller's defaults when it has none;
\* the mount leaves the store as it is and starts no timer.
C12_InitialValues ==
    [][\A k \in Keys :
          MountStep(k) =>
              LET initial == IF k \in DOMAIN formStates
                             THEN formStates[k] ELSE DefaultValues(k)
              IN  /\ inst'[k].values = initial
                  /\ inst'[k].formDefaultValues = initial
                  /\ inst'[k].hasRestored = (k \in DOMAIN formStates)
                  /\ formStates' = formStates]_vars

\* A session just mounted on a key without an entry: it shows the defaults.
C12_Witness ==
    \E k \in Keys :
        /\ inst[k].mounted /\ hist[k].lastOp = "mount" /\ ~inst[k].hasRestored
        /\ inst[k].debounceMs = MaxDebounceMs
        /\ k \notin DOMAIN formStates /\ inst[k].values = DefaultValues(k)

\* C19 (one pending timer): in every reachable state a key has at most one
\* debounce timer pending, the one debounceTimerRef designates, and none
\* after a reset or while no session is mounted, so that two writes never
\* come from two timers that overlap.
C19_OnePendingTimer ==
    \A k \in Keys :
        /\ Len(Pending(k)) <= 1
        /\ \A i \in 1..Len(Pending(k)) : Pending(k)[i].ref
        /\ hist[k].lastOp = "reset" \/ ~inst[k].mounted => Pending(k) = << >>

\* Two or more changes in a row, and one timer pending that is not yet due.
C19_Witness ==
    \E k \in Keys :
        /\ inst[k].mounted /\ hist[k].changes >= 2 /\ hist[k].writes = 0
        /\ Len(Pending(k)) = 1 /\ Pending(k)[1].remaining > 0

\* C20 (no timer while resetting): in every reachable state isResetting
\* implies that no debounce timer is pending; so no debounce timer fires,
\* and nothing is written, while isResetting is true, and a change that
\* arrives while isResetting is true schedules no timer.
C20_NoneWhileResetting ==
    \A k \in Keys : inst[k].isResetting => Pending(k) = << >>

C20_ResettingGuard ==
    /\ []C20_NoneWhileResetting
    /\ [][\A k \in Keys :
             /\ FireDebounce(k) => ~inst[k].isResetting
             /\ ChangeStep(k) /\ inst[k].isResetting =>
                    Pending(k)' = << >> /\ formStates' = formStates]_vars

\* A change made during the cooldown of a reset: no timer was scheduled.
C20_Witness ==
    \E k \in Keys :
        /\ inst[k].mounted /\ inst[k].isResetting /\ hist[k].lastOp = "change"
        /\ inst[k].values = "a" /\ Pending(k) = << >>

\* C16 (store round trip): after setFormState(k, S), for any state S, the
\* store's entry of k is S, whatever it was before (a set overwrites), and a
\* getFormState(k) that follows, with no other operation on k between,
\* returns S.
C16_RoundTrip ==
    \A k \in Keys :
        hist[k].lastOp = "set" =>
            /\ Entry(formStates, k) = hist[k].arg
            /\ hist[k].got # NoResult => hist[k].got = hist[k].arg

\* C17 (clear idempotence): clearFormState(k) leaves the store without an
\* entry of k and with every other entry as it was; on a key without an
\* entry it changes nothing, and clearing a second time changes nothing.
C17_ClearIdempotent ==
    [][\A k \in Keys :
          StoreClear(k) =>
              /\ k \notin DOMAIN formStates'
              /\ \A j \in Keys \ {k} :
                     /\ j \in DOMAIN formStates' <=> j \in DOMAIN formStates
                     /\ Entry(formStates', j) = Entry(formStates, j)
              /\ k \notin DOMAIN formStates => formStates' = formStates
              /\ ClearFormState(formStates', k) = formStates']_vars

\* A key was cleared while another key keeps the entry it was given.
C17_Witness ==
    \E k, j \in Keys :
        /\ hist[k].lastOp = "clear" /\ k \notin DOMAIN formStates
        /\ hist[j].lastOp = "set" /\ j \in DOMAIN formStates
        /\ formStates[j] = "b"

\* C18 (store presence): in every reachable state of the store a key has
\* an entry if and only if the last operation on it that changes the store
\* (setFormState, clearFormState, clearAllFormStates) was a setFormState;
\* a store just created has no entry, getFormState changes nothing, and
\* clearAllFormStates leaves no entry.
C18_PresentIffSet ==
    \A k \in Keys : k \in DOMAIN formStates <=> hist[k].lastOp = "set"

C18_Presence ==
    /\ (DOMAIN formStates = {})
    /\ []C18_PresentIffSet
    /\ [][/\ (\E k \in Keys : StoreGet(k)) => formStates' = formStates
          /\ StoreClearAll => DOMAIN formStates' = {}]_vars

\* After a clearAllFormStates one key was set again and read, another was not.
C18_Witness ==
    \E k, j \in Keys :
        /\ hist[k].lastOp = "set" /\ k \in DOMAIN formStates
        /\ hist[k].got = "a"
        /\ hist[j].lastOp = "clearAll" /\ j \notin DOMAIN formStates

C15_EmptyKeyRejected ==
    /\ ~inst[EmptyKey].mounted
    /\ Pending(EmptyKey) = << >>
    /\ EmptyKey \notin DOMAIN formStates

\* C11 (key independence): with two sessions on different keys, a step that
\* changes the store entry of a key is no step of another key: not its
\* session's mount, change, reset or unmount, not one of its debounce or
\* cooldown timers firing, and not a setFormState or clearFormState of that
\* other key by a caller of the store; and a debounce timer of a session
\* writes that session's values under its own key.
C11_KeyIndependence ==
    [][/\ \A j \in Keys :
             \/ /\ j \in DOMAIN formStates' <=> j \in DOMAIN formStates
                /\ Entry(formStates', j) = Entry(formStates, j)
             \/ \A k \in TwoKeys \ {j} :
                    ~ \/ MountStep(k) \/ ChangeStep(k) \/ ResetStep(k)
                      \/ UnmountStep(k) \/ FireDebounce(k) \/ FireCooldown(k)
                      \/ StoreClear(k)
                      \/ \E state \in StoreStates : StoreSet(k, state)
       /\ \A k \in TwoKeys :
             FireDebounce(k) =>
                 /\ k \in DOMAIN formStates'
                 /\ \E i \in 1..Len(Pending(k)) :
                        formStates'[k] = Pending(k)[i].values]_vars

\* Both sessions are mounted and each has had its change written; then one
\* was reset, and the other's entry is still its own snapshot.
C11_Witness ==
    \E k, j \in TwoKeys :
        /\ k # j /\ inst[k].mounted /\ inst[j].mounted
        /\ hist[k].lastOp = "reset" /\ hist[k].cancelled
        /\ k \notin DOMAIN formStates
        /\ hist[j].writes >= 1 /\ j \in DOMAIN formStates
        /\ formStates[j] = TwoValues(j)

\* C21 (tracking resumes after reset): whenever isResetting is true it
\* becomes false again, the timers being run when they are due; a change
\* made after a reset while isResetting is false schedules, as a change
\* before the reset does, one debounce timer of debounceMs with the form's
\* values; and these values are written to the store unless a further
\* change, a reset or the unmount comes first.
C21_Outstanding(k, e) ==
    /\ inst[k].mounted /\ hist[k].afterReset
    /\ hist[k].changes >= 1 /\ hist[k].writes = 0 /\ hist[k].epoch = e

C21_Written(k, e) ==
    \/ hist[k].writes = 1 /\ Entry(formStates, k) = inst[k].values
    \/ hist[k].epoch # e
    \/ hist[k].lastOp # "change"

C21_TrackingResumes ==
    /\ \A k \in Keys : inst[k].isResetting ~> ~inst[k].isResetting
    /\ [][\A k \in Keys :
             ChangeStep(k) /\ hist[k].afterReset /\ ~inst[k].isResetting =>
                 /\ Pending(k)' = << [remaining |-> inst[k].debounceMs,
                                      values |-> inst'[k].values,
                                      ref |-> TRUE] >>
                 /\ formStates' = formStates]_vars
    /\ \A k \in Keys : \A e \in BOOLEAN : C21_Outstanding(k, e) ~> C21_Written(k, e)

\* A session that was reset; its cooldown is over, and a change made after
\* it has been written.
C21_Witness ==
    \E k \in Keys :
        /\ inst[k].mounted /\ hist[k].afterReset /\ ~inst[k].isResetting
        /\ inst[k].cooldownTimers = << >> /\ inst[k].debounceMs = MaxDebounceMs
        /\ hist[k].changes >= 1 /\ hist[k].writes = 1
        /\ inst[k].values = "a" /\ Entry(formStates, k) = "a"

\* C22 (cooldown covers the most recent reset): in every reachable state of
\* a mounted session, while less than the cooldown of ResetCooldownMs has
\* passed since its last reset, isResetting is true, whether or not an
\* earlier reset's cooldown was still running at that reset.
C22_CooldownCovers ==
    \A k \in Keys :
        inst[k].mounted /\ hist[k].afterReset /\ hist[k].sinceReset < ResetCooldownMs
            => inst[k].isResetting

\* C23 (no change is lost): for a session that stays mounted, the values of
\* every change, also of one made during the cooldown of a reset, are
\* written to the store unless a later change or a reset supersedes them;
\* so a mounted session with no timer left has form values that are the
\* store's entry or the values its last mount or reset applied.
C23_Quiescent ==
    \A k \in Keys :
        inst[k].mounted /\ Pending(k) = << >> /\ inst[k].cooldownTimers = << >> =>
            \/ inst[k].values = Entry(formStates, k)
            \/ inst[k].values = inst[k].formDefaultValues

C23_Emitted(k, e) ==
    inst[k].mounted /\ hist[k].lastOp = "change" /\ hist[k].epoch = e

C23_Reflected(k, e) ==
    \/ Entry(formStates, k) = inst[k].values
    \/ hist[k].epoch # e
    \/ hist[k].lastOp # "change"

C23_NoChangeLost ==
    /\ []C23_Quiescent
    /\ \A k \in Keys : \A e \in BOOLEAN : C23_Emitted(k, e) ~> C23_Reflected(k, e)

\* C24 (an explicit clear is not undone): when the entry of a session's key
\* was cleared by a caller of the store, with clearFormState(key) or
\* clearAllFormStates(), the key has no entry as long as the session makes
\* no change after the clear: a debounce timer that was pending at the clear
\* does not write the entry again.
C24_ClearStays ==
    \A k \in Keys :
        hist[k].lastOp \in {"clear", "clearAll"} => k \notin DOMAIN formStates

=============================================================================
